---------------------------- MODULE Spec2Model ----------------------------
(***************************************************************************)
(* Model of app/services/image_detection/image_detection.py:               *)
(* ImageDetectionService.classify_image (request, response handling,       *)
(* retry loop, exponential backoff) and ImageDetectionService.classify_batch*)
(* (semaphore-bounded concurrent dispatch, asyncio.gather).                *)
(*                                                                         *)
(* Python strings are sequences of one-character strings, so that f-string *)
(* formatting, str(int), str.strip() and the `in` substring test are       *)
(* computed character by character.                                        *)
(***************************************************************************)
EXTENDS Integers, Sequences, FiniteSets, TLC

\* ------------------------------------------------------------------ bounds
MaxRetry == 3
MaxImages == 2
MaxConcurrent == 2
MaxScriptedImages == 3
MaxUpload == 11

\* --------------------------------------------------------- program constants
DefaultRetryCount == 3
DefaultMaxConcurrent == 3
MinMaxTokens == 10
MaxMaxTokens == 500
DefaultMaxTokens == 50
MinTemperatureTenths == 0
MaxTemperatureTenths == 10
DefaultTemperatureTenths == 1
MaxBatchFiles == 10

\* ------------------------------------------------------------------ strings
DigitChars == <<"0", "1", "2", "3", "4", "5", "6", "7", "8", "9">>

RECURSIVE IntToStr(_)
\* str(n) for a non-negative integer, as formatted into an f-string.
IntToStr(n) ==
    IF n < 10 THEN <<DigitChars[n + 1]>>
    ELSE IntToStr(n \div 10) \o <<DigitChars[(n % 10) + 1]>>

\* Python `sub in s` for strings.
Contains(s, sub) ==
    \E i \in 1..(Len(s) - Len(sub) + 1) : SubSeq(s, i, i + Len(sub) - 1) = sub

Whitespace == {" ", "\t", "\n"}

RECURSIVE LStrip(_)
LStrip(s) ==
    IF s # <<>> /\ Head(s) \in Whitespace THEN LStrip(Tail(s)) ELSE s

RECURSIVE RStrip(_)
RStrip(s) ==
    IF s # <<>> /\ s[Len(s)] \in Whitespace
    THEN RStrip(SubSeq(s, 1, Len(s) - 1)) ELSE s

\* A bug that forgets to trim the candidate text.
StripNothing(s) == s

\* str.strip()
Strip(s) == RStrip(LStrip(s))

\* ----------------------------------------------------------- message texts
ApiErrorPrefix == <<"A", "P", "I", " ", "e", "r", "r", "o", "r", " ">>
ColonSpace == <<":", " ">>
RequestTimeoutStr == <<"3", "0", ".", "0">>
TimeoutMsg ==
    <<"R", "e", "q", "u", "e", "s", "t", " ", "t", "i", "m", "e", "o", "u", "t",
      " ", "a", "f", "t", "e", "r", " ">> \o RequestTimeoutStr \o <<"s">>
RequestErrorPrefix ==
    <<"R", "e", "q", "u", "e", "s", "t", " ", "e", "r", "r", "o", "r", ":", " ">>
InvalidFormatMsg ==
    <<"I", "n", "v", "a", "l", "i", "d", " ", "r", "e", "s", "p", "o", "n", "s",
      "e", " ", "f", "o", "r", "m", "a", "t", " ", "f", "r", "o", "m", " ", "A",
      "P", "I">>
EmptyResultMsg ==
    <<"E", "m", "p", "t", "y", " ", "c", "l", "a", "s", "s", "i", "f", "i", "c",
      "a", "t", "i", "o", "n", " ", "r", "e", "s", "u", "l", "t">>
KeyNotConfiguredMsg ==
    <<"O", "p", "e", "n", "R", "o", "u", "t", "e", "r", " ", "A", "P", "I", " ",
      "k", "e", "y", " ", "n", "o", "t", " ", "c", "o", "n", "f", "i", "g", "u",
      "r", "e", "d">>
AllRetriesFailedMsg ==
    <<"C", "l", "a", "s", "s", "i", "f", "i", "c", "a", "t", "i", "o", "n", " ",
      "f", "a", "i", "l", "e", "d", " ", "a", "f", "t", "e", "r", " ", "a", "l",
      "l", " ", "r", "e", "t", "r", "i", "e", "s">>
\* str(KeyError('message'))
KeyErrorMsg == <<"'", "m", "e", "s", "s", "a", "g", "e", "'">>

\* error_msg = f"API error {response.status_code}: {response.text}"
ApiErrorMsg(status, text) ==
    ApiErrorPrefix \o IntToStr(status) \o ColonSpace \o text

\* Exception(f"Request error: {str(e)}")
RequestErrorMsg(text) == RequestErrorPrefix \o text


\* ------------------------------------------------- responses of the remote
\* What one `await client.post(...)` can produce: an HTTP response (status,
\* raw body text, and for a 200 the shape of the JSON body), a
\* httpx.TimeoutException, or another httpx.RequestError with text str(e).
HttpResponse(status, text) ==
    [kind |-> "http", status |-> status, shape |-> "raw", text |-> text]
OkResponse(shape, text) ==
    [kind |-> "http", status |-> 200, shape |-> shape, text |-> text]
TimeoutResponse ==
    [kind |-> "timeout", status |-> 0, shape |-> "none", text |-> <<>>]
RequestErrorResponse(text) ==
    [kind |-> "reqerror", status |-> 0, shape |-> "none", text |-> text]

ClientStatuses == {400, 401, 403, 404, 429}
ServerStatuses == {500, 503}
OtherStatuses == {302, 600}
ErrorBodies == {<<>>, <<"r", "a", "t", "e", " ", "4", "0", "3">>}
\* str(e) of json.JSONDecodeError raised by response.json()
JsonErrorTexts ==
    {<<"E", "x", "p", "e", "c", "t", "i", "n", "g", " ", "v", "a", "l", "u", "e",
       " ", "(", "c", "h", "a", "r", " ", "0", ")">>,
     <<"E", "x", "p", "e", "c", "t", "i", "n", "g", " ", "v", "a", "l", "u", "e",
       " ", "(", "c", "h", "a", "r", " ", "4", "0", "0", ")">>}
\* result["choices"][0]["message"]["content"]
Contents == {<<" ", "c", "a", "t", " ">>, <<"d", "o", "g">>, <<" ", "\n">>, <<>>}
TransportErrorTexts ==
    {<<"r", "e", "f", "u", "s", "e", "d">>, <<"p", "o", "r", "t", " ", "4", "0", "0", "1">>}

Responses ==
    {HttpResponse(s, b) : s \in ClientStatuses \cup ServerStatuses \cup OtherStatuses,
                          b \in ErrorBodies}
    \cup {OkResponse("badjson", e) : e \in JsonErrorTexts}
    \cup {OkResponse("nochoices", <<>>), OkResponse("emptychoices", <<>>),
          OkResponse("nomessage", <<>>)}
    \cup {OkResponse("content", t) : t \in Contents}
    \cup {TimeoutResponse}
    \cup {RequestErrorResponse(t) : t \in TransportErrorTexts}

\* ------------------------------------------------------------------- state
VARIABLES
    api_key,        \* self.api_key (<<>> when not configured)
    calls,          \* one record per classify_image invocation
    images_data,    \* classify_batch argument
    max_concurrent, \* classify_batch argument
    semaphore,      \* value of asyncio.Semaphore(max_concurrent)
    task_result,    \* per task: <<>> or <<dict returned by classify_single>>
    batch_pc,       \* "none" | "running" | "returned" | "raised"
    batch_results,  \* list returned by classify_batch
    received,       \* responses delivered so far to the direct classify call
    completed,      \* task numbers in the order the tasks finished
    probe,          \* frame of test_connection
    http            \* the HTTP request being handled by the router

vars == <<api_key, calls, images_data, max_concurrent, semaphore, task_result,
          batch_pc, batch_results, received, completed, probe, http>>

batch_vars == <<images_data, max_concurrent, semaphore, task_result, batch_pc,
                batch_results, completed>>

http_vars == <<probe, http>>

\* test_connection not called; no HTTP request being handled.
IdleProbe == [pc |-> "idle", outcome |-> <<>>, result |-> <<>>]
NoRequest == [route |-> "none", pc |-> "idle"]

\* ---------------------------------------------------------- classify_image
\* Locals of one invocation.  pc: "idle" (not yet called), "post" (awaiting
\* client.post), "sleep" (awaiting asyncio.sleep), "returned", "raised".
\* events is the sequence of requests sent and backoff sleeps started.
NewCall(image, retry) ==
    [pc |-> "idle", image_data |-> image, retry_count |-> retry, attempt |-> 0,
     last_exception |-> <<>>, out |-> <<>>, events |-> <<>>]

PostEvent(attempt) == [ev |-> "post", n |-> attempt]
SleepEvent(seconds) == [ev |-> "sleep", n |-> seconds]

Finished(c) == c.pc \in {"returned", "raised"}

Raise(c, msg) == [c EXCEPT !.pc = "raised", !.out = msg]
Return(c, text) == [c EXCEPT !.pc = "returned", !.out = text]

\* A bug that always surfaces the generic error.
FinalErrorGeneric(last) == AllRetriesFailedMsg

\* raise last_exception or Exception("Classification failed after all retries")
FinalError(last) == IF last # <<>> THEN last[1] ELSE AllRetriesFailedMsg

\* A bug that drops the key check.
ApiKeyMissingNever(key) == FALSE

\* if not self.api_key
ApiKeyMissing(key) == key = <<>>

\* A bug that makes one attempt too many.
InRangeOffByOne(a, retry) == a <= retry

\* `for attempt in range(retry_count)`: is there an iteration with index a
InRange(a, retry) == a < retry

\* Top of the loop body for index a (send the request and suspend), or the
\* statement after the loop when range(retry_count) is exhausted.
Iterate(c, a) ==
    IF InRange(a, c.retry_count)
    THEN [c EXCEPT !.attempt = a, !.pc = "post",
                   !.events = Append(@, PostEvent(a))]
    ELSE Raise(c, FinalError(c.last_exception))

\* if attempt < retry_count - 1
NeedsBackoff(attempt, retry) == attempt < retry - 1

\* A bug that backs off linearly.
WaitTimeLinear(attempt) == attempt + 1

\* wait_time = 2 ** attempt
WaitTime(attempt) == 2 ^ attempt

\* Code after the try statement: back off, or fall through to the next
\* iteration.
AfterHandler(c) ==
    IF NeedsBackoff(c.attempt, c.retry_count)
    THEN [c EXCEPT !.pc = "sleep",
                   !.events = Append(@, SleepEvent(WaitTime(c.attempt)))]
    ELSE Iterate(c, c.attempt + 1)

\* A bug that matches only "400".
IsClientErrorTextOnly400(msg) == Contains(msg, <<"4", "0", "0">>)

\* if "400" in str(e) or "401" in str(e) or "403" in str(e)
IsClientErrorText(msg) ==
    \/ Contains(msg, <<"4", "0", "0">>)
    \/ Contains(msg, <<"4", "0", "1">>)
    \/ Contains(msg, <<"4", "0", "3">>)

\* except Exception as e: record, then break on a client-error text.
GenericHandler(c, msg) ==
    LET c1 == [c EXCEPT !.last_exception = <<msg>>] IN
    IF IsClientErrorText(msg)
    THEN Raise(c1, FinalError(c1.last_exception))
    ELSE AfterHandler(c1)

\* A bug that gives up on the first timeout.
TimeoutHandlerAbort(c) == Raise(c, TimeoutMsg)

\* except httpx.TimeoutException
TimeoutHandler(c) == AfterHandler([c EXCEPT !.last_exception = <<TimeoutMsg>>])

\* A bug that sends transport errors through the client-error text check.
RequestErrorHandlerChecked(c, text) == GenericHandler(c, RequestErrorMsg(text))

\* except httpx.RequestError as e
RequestErrorHandler(c, text) ==
    AfterHandler([c EXCEPT !.last_exception = <<RequestErrorMsg(text)>>])

\* if response.status_code != 200: ...
HandleNon200(c, r) ==
    LET error_msg == ApiErrorMsg(r.status, r.text) IN
    IF 400 <= r.status /\ r.status < 500
    THEN GenericHandler(c, error_msg)
    ELSE Iterate([c EXCEPT !.last_exception = <<error_msg>>], c.attempt + 1)

\* result = response.json() ... return classification
Handle200(c, r) ==
    CASE r.shape = "badjson" -> GenericHandler(c, r.text)
      [] r.shape \in {"nochoices", "emptychoices"} ->
            GenericHandler(c, InvalidFormatMsg)
      [] r.shape = "nomessage" -> GenericHandler(c, KeyErrorMsg)
      [] r.shape = "content" ->
            LET classification == Strip(r.text) IN
            IF classification = <<>>
            THEN GenericHandler(c, EmptyResultMsg)
            ELSE Return(c, classification)

\* Resumption of the coroutine when `await client.post(...)` completes with r,
\* up to its next suspension point or its end.
OnResponse(c, r) ==
    CASE r.kind = "timeout" -> TimeoutHandler(c)
      [] r.kind = "reqerror" -> RequestErrorHandler(c, r.text)
      [] r.kind = "http" /\ r.status # 200 -> HandleNon200(c, r)
      [] r.kind = "http" /\ r.status = 200 -> Handle200(c, r)

\* Resumption when `await asyncio.sleep(wait_time)` completes.
OnWake(c) == Iterate(c, c.attempt + 1)

\* Entry of classify_image up to its first suspension point or its end.
BeginCall(key, c) ==
    IF ApiKeyMissing(key) THEN Raise(c, KeyNotConfiguredMsg) ELSE Iterate(c, 0)

\* ------------------------------------------------- direct call of classify
ApiKeys == {<<>>, <<"k">>}
ImageBytes == {1, 2}
RetryCounts == (0 - 1)..MaxRetry

Init ==
    /\ api_key \in ApiKeys
    /\ \E image \in ImageBytes, retry \in RetryCounts :
          calls = <<NewCall(image, retry)>>
    /\ images_data = <<>>
    /\ max_concurrent = DefaultMaxConcurrent
    /\ semaphore = 0
    /\ task_result = <<>>
    /\ batch_pc = "none"
    /\ batch_results = <<>>
    /\ received = <<>>
    /\ completed = <<>>
    /\ probe = IdleProbe
    /\ http = NoRequest

ClassifyCall ==
    /\ batch_pc = "none"
    /\ calls[1].pc = "idle"
    /\ calls' = [calls EXCEPT ![1] = BeginCall(api_key, @)]
    /\ UNCHANGED <<api_key, batch_vars, received, http_vars>>

ClassifyResponse ==
    /\ batch_pc = "none"
    /\ calls[1].pc = "post"
    /\ \E r \in Responses :
          /\ calls' = [calls EXCEPT ![1] = OnResponse(@, r)]
          /\ received' = Append(received, r)
    /\ UNCHANGED <<api_key, batch_vars, http_vars>>

ClassifyWake ==
    /\ batch_pc = "none"
    /\ calls[1].pc = "sleep"
    /\ calls' = [calls EXCEPT ![1] = OnWake(@)]
    /\ UNCHANGED <<api_key, batch_vars, received, http_vars>>

Next == ClassifyCall \/ ClassifyResponse \/ ClassifyWake

Spec == Init /\ [][Next]_vars

\* ---------------------------------------------------------- classify_batch
\* Text the remote model answers for an image (first candidate's content).
Label(image) ==
    IF image = 1 THEN <<" ", "c", "a", "t", " ">> ELSE <<"d", "o", "g">>

\* Responses the remote gives to a request of a batch task carrying `image`.
BatchResponses(image) ==
    {OkResponse("content", Label(image)), HttpResponse(500, <<>>),
     HttpResponse(401, <<>>), TimeoutResponse}

MaxConcurrentValues == (0 - 1)..MaxConcurrent

Tasks == 1..Len(images_data)

\* A bug that lets every task in.
CanAcquireAlways(value) == TRUE

\* A bug that keeps one slot back.
CanAcquireOffByOne(value) == value > 1

\* asyncio.Semaphore.acquire proceeds without waiting while the value is positive
CanAcquire(value) == value > 0

\* A bug where every task reports the index of the last image.
ClassifySingleResultLastIndex(index, c) ==
    IF c.pc = "returned"
    THEN [index |-> Len(images_data) - 1, success |-> TRUE, classification |-> c.out]
    ELSE [index |-> Len(images_data) - 1, success |-> FALSE, error |-> c.out]

\* A bug that reports a failed call as a success.
ClassifySingleResultSwallowError(index, c) ==
    [index |-> index, success |-> TRUE, classification |-> c.out]

\* The dict classify_single returns for the finished classify_image call c.
ClassifySingleResult(index, c) ==
    IF c.pc = "returned"
    THEN [index |-> index, success |-> TRUE, classification |-> c.out]
    ELSE [index |-> index, success |-> FALSE, error |-> c.out]

\* A bug that collects the results as the tasks finish.
GatherAsCompleted(results, order) == [i \in 1..Len(order) |-> results[order[i]][1]]

\* results = await asyncio.gather(*tasks): the tasks' values in argument order
Gather(results, order) == [i \in 1..Len(results) |-> results[i][1]]

InitBatch ==
    /\ api_key \in ApiKeys
    /\ \E n \in 0..MaxImages : images_data \in [1..n -> ImageBytes]
    /\ max_concurrent \in MaxConcurrentValues
    /\ calls = <<>>
    /\ semaphore = 0
    /\ task_result = <<>>
    /\ batch_pc = "idle"
    /\ batch_results = <<>>
    /\ received = <<>>
    /\ completed = <<>>
    /\ probe = IdleProbe
    /\ http = NoRequest

\* Entry of classify_batch: the semaphore is built (ValueError for a negative
\* value) and one classify_single coroutine per image is handed to gather.
BatchCall ==
    /\ batch_pc = "idle"
    /\ IF max_concurrent < 0
       THEN /\ batch_pc' = "raised"
            /\ UNCHANGED <<calls, semaphore, task_result>>
       ELSE /\ batch_pc' = "running"
            /\ semaphore' = max_concurrent
            /\ calls' = [i \in Tasks |-> NewCall(images_data[i], DefaultRetryCount)]
            /\ task_result' = [i \in Tasks |-> <<>>]
    /\ UNCHANGED <<api_key, images_data, max_concurrent, batch_results, received,
                   completed, http_vars>>

\* A bug that releases the slot only after a successful call.
ReleaseOnSuccessOnly(held, c) == IF c.pc = "returned" THEN held + 1 ELSE held

\* Exit of `async with semaphore`, reached by the return in the try block and
\* by the return in the except block alike.
Release(held, c) == held + 1

\* Task t runs until its next suspension point with classify_image locals c;
\* when the call has ended, classify_single builds its dict and `async with`
\* releases the semaphore.  held is the semaphore value while t runs.
TaskStep(t, c, held) ==
    /\ calls' = [calls EXCEPT ![t] = c]
    /\ IF Finished(c)
       THEN /\ task_result' = [task_result EXCEPT ![t] = <<ClassifySingleResult(t - 1, c)>>]
            /\ semaphore' = Release(held, c)
            /\ completed' = Append(completed, t)
       ELSE /\ semaphore' = held
            /\ UNCHANGED <<task_result, completed>>
    /\ UNCHANGED <<api_key, images_data, max_concurrent, batch_pc, batch_results,
                   received, http_vars>>

\* A bug that runs a failed item again.
NotStartedOrFailed(c) == c.pc \in {"idle", "raised"}

\* The coroutine built for an image by the list comprehension runs its body
\* once, from the top.
NotStarted(c) == c.pc = "idle"

\* `async with semaphore` succeeds and classify_image is entered.
TaskAdmit(t) ==
    /\ batch_pc = "running"
    /\ NotStarted(calls[t])
    /\ CanAcquire(semaphore)
    /\ TaskStep(t, BeginCall(api_key, calls[t]), semaphore - 1)

TaskResponse(t) ==
    /\ batch_pc = "running"
    /\ calls[t].pc = "post"
    /\ \E r \in BatchResponses(calls[t].image_data) :
          TaskStep(t, OnResponse(calls[t], r), semaphore)

TaskWake(t) ==
    /\ batch_pc = "running"
    /\ calls[t].pc = "sleep"
    /\ TaskStep(t, OnWake(calls[t]), semaphore)

\* gather completes once every task has returned its dict.
BatchReturn ==
    /\ batch_pc = "running"
    /\ \A t \in Tasks : task_result[t] # <<>>
    /\ batch_results' = Gather(task_result, completed)
    /\ batch_pc' = "returned"
    /\ UNCHANGED <<api_key, calls, images_data, max_concurrent, semaphore,
                   task_result, received, completed, http_vars>>

NextBatch ==
    \/ BatchCall
    \/ \E t \in Tasks : TaskAdmit(t)
    \/ \E t \in Tasks : TaskResponse(t)
    \/ \E t \in Tasks : TaskWake(t)
    \/ BatchReturn

SpecBatch == InitBatch /\ [][NextBatch]_vars

\* The event loop runs every ready task, every sleep ends, and every request
\* eventually returns or times out.
\* The image bytes only choose the label text, so the fair specification
\* sends the image 1 n times.
InitFairBatch ==
    /\ InitBatch
    /\ \A i \in 1..Len(images_data) : images_data[i] = 1

FairSpecBatch == InitFairBatch /\ [][NextBatch]_vars /\ WF_vars(NextBatch)

\* ------------------------------------- classify_batch, simulated remote
\* A remote that answers 500 to every request carrying a failing image and a
\* well-formed 200 to every other request.
FailingImages == {3}

ScriptedResponse(image) ==
    IF image \in FailingImages
    THEN HttpResponse(500, <<>>)
    ELSE OkResponse("content", Label(image))

InitScripted ==
    /\ api_key = <<"k">>
    /\ \E n \in 1..MaxScriptedImages :
          images_data \in [1..n -> ImageBytes \cup FailingImages]
    /\ max_concurrent \in 1..MaxConcurrent
    /\ calls = <<>>
    /\ semaphore = 0
    /\ task_result = <<>>
    /\ batch_pc = "idle"
    /\ batch_results = <<>>
    /\ received = <<>>
    /\ completed = <<>>
    /\ probe = IdleProbe
    /\ http = NoRequest

TaskResponseScripted(t) ==
    /\ batch_pc = "running"
    /\ calls[t].pc = "post"
    /\ TaskStep(t, OnResponse(calls[t], ScriptedResponse(calls[t].image_data)),
                semaphore)

NextScripted ==
    \/ BatchCall
    \/ \E t \in Tasks : TaskAdmit(t)
    \/ \E t \in Tasks : TaskResponseScripted(t)
    \/ BatchReturn

SpecScripted == InitScripted /\ [][NextScripted]_vars

\* ------------------------------------------------------- test_connection
\* What `await client.get(...)` can produce: a response with a status, a
\* timeout, another httpx.RequestError, or any other Exception.
ProbeStatuses == {200, 204, 301, 401, 404, 429, 500, 503}
ProbeOutcomes ==
    {[kind |-> "http", status |-> st] : st \in ProbeStatuses}
    \cup {[kind |-> k, status |-> 0] : k \in {"timeout", "reqerror", "error"}}

\* A bug that accepts every 2xx.
TestConnectionResultAny2xx(o) ==
    o.kind = "http" /\ 200 <= o.status /\ o.status < 300

\* return response.status_code == 200
TestConnectionResult(o) == o.kind = "http" /\ o.status = 200

\* except Exception as e: every exception of the network call is caught
TestConnectionCatches(o) == o.kind \in {"timeout", "reqerror", "error"}

\* test_connection resumed with outcome o of the GET, up to its end.
OnProbeOutcome(p, o) ==
    IF o.kind = "http"
    THEN [p EXCEPT !.pc = "returned", !.outcome = <<o>>,
                   !.result = <<TestConnectionResult(o)>>]
    ELSE IF TestConnectionCatches(o)
         THEN [p EXCEPT !.pc = "returned", !.outcome = <<o>>, !.result = <<FALSE>>]
         ELSE [p EXCEPT !.pc = "raised", !.outcome = <<o>>]

\* ---------------------------------------------------------------- router
Routes == {"health", "classify", "batch"}

\* A request as received by the router.  content_type_ok, too_large,
\* data, max_tokens and temperature are the single-image form fields; n_files is
\* the length of the batch upload; files are the uploaded files looked at so
\* far, reads counts file.read() calls, passed holds the arguments given to
\* classify_image, results is the batch endpoint's result list, reply the
\* response sent to the client.
NewRequest(route, content_type_ok, too_large, data, max_tokens, temperature, n_files) ==
    [route |-> route, pc |-> "idle", content_type_ok |-> content_type_ok,
     too_large |-> too_large, data |-> data, max_tokens |-> max_tokens,
     temperature |-> temperature, n_files |-> n_files, files |-> <<>>,
     reads |-> 0, passed |-> <<>>, results |-> <<>>, reply |-> <<>>]

\* HealthCheckResponse / HTTPException(500) of health_check
HealthReply(p) ==
    IF p.pc = "returned"
    THEN [code |-> 200, models_available |-> p.result[1],
          status |-> IF p.result[1] THEN "healthy" ELSE "degraded"]
    ELSE [code |-> 500, models_available |-> FALSE, status |-> "failed"]

\* health_check up to `await image_service.test_connection()`, which runs to
\* its `await client.get(...)`.
HealthRequest ==
    /\ http.route = "health"
    /\ http.pc = "idle"
    /\ probe' = [probe EXCEPT !.pc = "get"]
    /\ http' = [http EXCEPT !.pc = "probing"]
    /\ UNCHANGED <<api_key, calls, batch_vars, received>>

\* The GET completes; test_connection ends and health_check replies.
HealthProbeDone ==
    /\ http.route = "health"
    /\ http.pc = "probing"
    /\ probe.pc = "get"
    /\ \E o \in ProbeOutcomes :
          /\ probe' = OnProbeOutcome(probe, o)
          /\ http' = [http EXCEPT !.pc = "replied",
                                  !.reply = <<HealthReply(OnProbeOutcome(probe, o))>>]
    /\ UNCHANGED <<api_key, calls, batch_vars, received>>

\* ----------------------------------------------- POST /classify (router)
\* Python floats, in tenths: a finite number, NaN, or an infinity.
FNum(t) == [kind |-> "num", tenths |-> t]
FNaN == [kind |-> "nan", tenths |-> 0]
FPosInf == [kind |-> "inf", tenths |-> 0]
FNegInf == [kind |-> "ninf", tenths |-> 0]

\* a < b on floats: every comparison with NaN is False.
FloatLt(a, b) ==
    CASE a.kind = "nan" \/ b.kind = "nan" -> FALSE
      [] a.kind = "num" /\ b.kind = "num" -> a.tenths < b.tenths
      [] a.kind = "ninf" -> b.kind # "ninf"
      [] a.kind = "inf" -> FALSE
      [] OTHER -> b.kind = "inf"

\* bool(x) of an Optional[float] / Optional[int]: None and zero are falsy.
FloatTruthy(t) == t # <<>> /\ t[1] # FNum(0)
IntTruthy(n) == n # <<>> /\ n[1] # 0

\* Form values: None (<<>>) or a parsed value.
MaxTokensInputs == {<<>>} \cup {<<n>> : n \in {-5, 0, 9, 10, 50, 500, 501}}
TemperatureInputs ==
    {<<>>} \cup {<<FNum(t)>> : t \in {-1, 0, 1, 5, 10, 11}}
           \cup {<<FNaN>>, <<FPosInf>>, <<FNegInf>>}

\* A bug that clamps at the wrong upper bound.
ValidateMaxTokensNoUpper(mt) ==
    IF IntTruthy(mt) /\ mt[1] < MinMaxTokens THEN <<DefaultMaxTokens>> ELSE mt

\* if max_tokens and (max_tokens < 10 or max_tokens > 500): max_tokens = 50
ValidateMaxTokens(mt) ==
    IF IntTruthy(mt) /\ (mt[1] < MinMaxTokens \/ mt[1] > MaxMaxTokens)
    THEN <<DefaultMaxTokens>> ELSE mt

\* if temperature and (temperature < 0.0 or temperature > 1.0): temperature = 0.1
ValidateTemperature(t) ==
    IF FloatTruthy(t) /\ (\/ FloatLt(t[1], FNum(MinTemperatureTenths))
                          \/ FloatLt(FNum(MaxTemperatureTenths), t[1]))
    THEN <<FNum(DefaultTemperatureTenths)>> ELSE t

\* max_tokens=max_tokens or 50, temperature=temperature or 0.1
PassedArgs(mt, t) ==
    [max_tokens |-> IF IntTruthy(mt) THEN mt[1] ELSE DefaultMaxTokens,
     temperature |-> IF FloatTruthy(t) THEN t[1] ELSE FNum(DefaultTemperatureTenths)]

\* Responses of the remote to a request made on behalf of the router.
EndpointResponses(image) == {OkResponse("content", Label(image)), TimeoutResponse}

FailedToClassifyPrefix ==
    <<"F", "a", "i", "l", "e", "d", " ", "t", "o", " ", "c", "l", "a", "s", "s",
      "i", "f", "y", " ", "i", "m", "a", "g", "e", ":", " ">>
NotAnImageMsg ==
    <<"N", "o", "t", " ", "a", " ", "v", "a", "l", "i", "d", " ", "i", "m", "a",
      "g", "e", " ", "f", "i", "l", "e">>

\* ImageClassificationResponse, or HTTPException(500) from the except clause.
ClassifyReply(c) ==
    IF c.pc = "returned"
    THEN [code |-> 200, success |-> TRUE, text |-> c.out]
    ELSE [code |-> 500, success |-> FALSE, text |-> FailedToClassifyPrefix \o c.out]

\* HTTPException(status_code=400, ...)
BadRequestReply == [code |-> 400, success |-> FALSE, text |-> <<>>]

\* --------------------------------------------- POST /classify-batch (router)
\* A bug that compares with >=.
TooManyFilesOffByOne(n) == n >= MaxBatchFiles

\* if len(files) > 10
TooManyFiles(n) == n > MaxBatchFiles

\* The j-th uploaded file: its name, whether its content type starts with
\* "image/", and its bytes.
UploadFile(j, is_image) ==
    [filename |-> j, is_image |-> is_image, data |-> 1 + (j % 2)]

NotImageEntry(file) ==
    [filename |-> file.filename, success |-> FALSE, error |-> NotAnImageMsg]

\* A bug that drops the entry of a failed file.
BatchEntrySkipFailure(file, c) ==
    IF c.pc = "returned"
    THEN <<[filename |-> file.filename, success |-> TRUE, classification |-> c.out]>>
    ELSE <<>>

\* results.append(...) after classify_image returned or raised
BatchEntry(file, c) ==
    IF c.pc = "returned"
    THEN <<[filename |-> file.filename, success |-> TRUE, classification |-> c.out]>>
    ELSE <<[filename |-> file.filename, success |-> FALSE, error |-> c.out]>>

\* The dict returned after the loop.
BatchReply(results, n) ==
    [code |-> 200, batch_results |-> results, total_files |-> n,
     successful |-> Cardinality({p \in 1..Len(results) : results[p].success}),
     failed |-> Cardinality({p \in 1..Len(results) : ~results[p].success})]

\* End of one loop iteration: next file, or the return after the loop.
AfterFile(h) ==
    IF Len(h.files) < h.n_files
    THEN [h EXCEPT !.pc = "next"]
    ELSE [h EXCEPT !.pc = "replied", !.reply = <<BatchReply(h.results, h.n_files)>>]

\* A bug that starts the call as a background task and moves on to the next
\* file without awaiting it.
OnCallStepNoAwait(h, c) ==
    IF ~Finished(c)
    THEN [h EXCEPT !.pc = IF h.route = "batch" THEN "next" ELSE "classifying"]
    ELSE IF h.route = "classify"
         THEN [h EXCEPT !.pc = "replied", !.reply = <<ClassifyReply(c)>>]
         ELSE AfterFile([h EXCEPT !.results = @ \o BatchEntry(h.files[Len(h.files)], c)])

\* The router resumes with the frame c of its current classify_image call.
OnCallStep(h, c) ==
    IF ~Finished(c)
    THEN [h EXCEPT !.pc = "classifying"]
    ELSE IF h.route = "classify"
         THEN [h EXCEPT !.pc = "replied", !.reply = <<ClassifyReply(c)>>]
         ELSE AfterFile([h EXCEPT !.results = @ \o BatchEntry(h.files[Len(h.files)], c)])

\* classify_image (router): validation, read, parameter check, call.
ClassifyRequest ==
    /\ http.route = "classify"
    /\ http.pc = "idle"
    /\ IF ~http.content_type_ok \/ http.too_large
       THEN /\ http' = [http EXCEPT !.pc = "replied", !.reply = <<BadRequestReply>>]
            /\ UNCHANGED calls
       ELSE LET mt == ValidateMaxTokens(http.max_tokens)
                t == ValidateTemperature(http.temperature)
                c == BeginCall(api_key, NewCall(http.data, DefaultRetryCount))
            IN /\ calls' = <<c>>
               /\ http' = OnCallStep([http EXCEPT !.reads = 1,
                                                  !.passed = <<PassedArgs(mt, t)>>], c)
    /\ UNCHANGED <<api_key, batch_vars, received, probe>>

\* classify_batch_images: the size check, then the loop is entered.
BatchRequest ==
    /\ http.route = "batch"
    /\ http.pc = "idle"
    /\ http' = IF TooManyFiles(http.n_files)
               THEN [http EXCEPT !.pc = "replied", !.reply = <<BadRequestReply>>]
               ELSE AfterFile(http)
    /\ UNCHANGED <<api_key, calls, batch_vars, received, probe>>

\* One loop iteration up to `continue`, to the end of the iteration, or to
\* the first suspension of classify_image.
BatchNextFile ==
    /\ http.route = "batch"
    /\ http.pc = "next"
    /\ \E is_image \in BOOLEAN :
          LET file == UploadFile(Len(http.files) + 1, is_image)
              h == [http EXCEPT !.files = Append(@, file)]
          IN IF ~is_image
             THEN /\ http' = AfterFile([h EXCEPT !.results = Append(@, NotImageEntry(file))])
                  /\ UNCHANGED calls
             ELSE LET c == BeginCall(api_key, NewCall(file.data, DefaultRetryCount))
                  IN /\ calls' = <<c>>
                     /\ http' = OnCallStep([h EXCEPT !.reads = @ + 1], c)
    /\ UNCHANGED <<api_key, batch_vars, received, probe>>

\* The request of the router's current classify_image call completes.
EndpointResponse ==
    /\ http.pc = "classifying"
    /\ calls[1].pc = "post"
    /\ \E r \in EndpointResponses(calls[1].image_data) :
          /\ calls' = <<OnResponse(calls[1], r)>>
          /\ http' = OnCallStep(http, OnResponse(calls[1], r))
    /\ UNCHANGED <<api_key, batch_vars, received, probe>>

\* The backoff sleep of the router's current classify_image call ends.
EndpointWake ==
    /\ http.pc = "classifying"
    /\ calls[1].pc = "sleep"
    /\ calls' = <<OnWake(calls[1])>>
    /\ http' = OnCallStep(http, OnWake(calls[1]))
    /\ UNCHANGED <<api_key, batch_vars, received, probe>>

InitHttp ==
    /\ api_key \in ApiKeys
    /\ http \in
          {NewRequest("health", TRUE, FALSE, 1, <<>>, <<>>, 0)}
          \cup {NewRequest("classify", ok, large, d, mt, t, 1) :
                  ok \in BOOLEAN, large \in BOOLEAN, d \in ImageBytes,
                  mt \in MaxTokensInputs, t \in TemperatureInputs}
          \cup {NewRequest("batch", TRUE, FALSE, 1, <<>>, <<>>, n) : n \in 0..MaxUpload}
    /\ probe = IdleProbe
    /\ calls = <<>>
    /\ images_data = <<>>
    /\ max_concurrent = DefaultMaxConcurrent
    /\ semaphore = 0
    /\ task_result = <<>>
    /\ batch_pc = "none"
    /\ batch_results = <<>>
    /\ received = <<>>
    /\ completed = <<>>

NextHttp ==
    \/ HealthRequest
    \/ HealthProbeDone
    \/ ClassifyRequest
    \/ BatchRequest
    \/ BatchNextFile
    \/ EndpointResponse
    \/ EndpointWake

SpecHttp == InitHttp /\ [][NextHttp]_vars

\* ------------------------------------------- observations on a direct call
Direct == calls[1]

IsPost(e) == e.ev = "post"
IsSleep(e) == e.ev = "sleep"
Posts(c) == SelectSeq(c.events, IsPost)
Sleeps(c) == SelectSeq(c.events, IsSleep)
NumPosts(c) == Len(Posts(c))
LastEvent(c) == c.events[Len(c.events)]

Is4xx(r) == r.kind = "http" /\ 400 <= r.status /\ r.status < 500
Is5xx(r) == r.kind = "http" /\ 500 <= r.status /\ r.status < 600
IsOtherNon200(r) ==
    r.kind = "http" /\ r.status # 200 /\ ~(400 <= r.status /\ r.status < 600)
IsAuthStatus(r) == r.kind = "http" /\ r.status \in {400, 401, 403}
IsContent200(r) == r.kind = "http" /\ r.status = 200 /\ r.shape = "content"
WellFormed200(r) ==
    IsContent200(r) /\ \E i \in 1..Len(r.text) : r.text[i] \notin Whitespace
BlankContent200(r) ==
    IsContent200(r) /\ \A i \in 1..Len(r.text) : r.text[i] \in Whitespace
\* A 200 body whose result field is absent or empty.
Malformed200(r) ==
    \/ r.kind = "http" /\ r.status = 200
         /\ r.shape \in {"nochoices", "emptychoices", "nomessage"}
    \/ BlankContent200(r)
TransientFailure(r) ==
    Is5xx(r) \/ r.kind = "timeout" \/ r.kind = "reqerror" \/ Malformed200(r)

\* The error text an attempt that ended with the transient failure r records.
RecordedError(r) ==
    CASE r.kind = "timeout" -> TimeoutMsg
      [] r.kind = "reqerror" -> RequestErrorPrefix \o r.text
      [] r.kind = "http" /\ r.status # 200 ->
            ApiErrorPrefix \o IntToStr(r.status) \o ColonSpace \o r.text
      [] r.kind = "http" /\ r.status = 200 /\ r.shape = "nomessage" -> KeyErrorMsg
      [] r.kind = "http" /\ r.status = 200 /\ r.shape = "content" -> EmptyResultMsg
      [] OTHER -> InvalidFormatMsg

\* ------------------------------------------------------------------ claims

\* C1: every 4xx response, whatever its body, ends the call at that attempt:
\* the call has raised "API error <status>: <body>", and no backoff sleep and
\* no further request follow the request that got the 4xx.
C1_ClientErrorFailsAtOnce ==
    \A i \in 1..Len(received) :
        Is4xx(received[i]) =>
            /\ Len(received) = i
            /\ Direct.pc = "raised"
            /\ Direct.out = ApiErrorPrefix \o IntToStr(received[i].status)
                                \o ColonSpace \o received[i].text
            /\ LastEvent(Direct) = PostEvent(i - 1)

\* C2: with retry_count >= 1, a first response of status 400, 401 or 403 means
\* exactly one request was sent, no backoff sleep happened, and the call raised
\* the error carrying that status.
C2_AuthErrorSingleRequest ==
    (Direct.retry_count >= 1 /\ received # <<>> /\ IsAuthStatus(received[1])) =>
        /\ Len(received) = 1
        /\ Direct.pc = "raised"
        /\ Direct.events = <<PostEvent(0)>>
        /\ Direct.out = ApiErrorPrefix \o IntToStr(received[1].status)
                            \o ColonSpace \o received[1].text

C2_Witness ==
    /\ Direct.retry_count >= 2
    /\ received = <<HttpResponse(401, <<>>)>>
    /\ Direct.pc = "raised"

\* C3: when attempts 0..k-1 each got a 5xx and attempt k got a well-formed 200,
\* the call returned after k+1 requests and exactly k backoff sleeps of
\* 2^0, ..., 2^(k-1) seconds, in that order, preceded it.
C3_ServerErrorsThenOkBacksOff ==
    \A k \in 0..(Len(received) - 1) :
        ((\A j \in 1..k : Is5xx(received[j])) /\ WellFormed200(received[k + 1])) =>
            /\ Direct.pc = "returned"
            /\ NumPosts(Direct) = k + 1
            /\ Sleeps(Direct) = [j \in 1..k |-> SleepEvent(2 ^ (j - 1))]

\* C4: between every two consecutive requests i and i+1 there is exactly one
\* backoff sleep, of 2^i seconds, and no sleep follows the request of the last
\* attempt (index retry_count - 1).
C4_BackoffBetweenAttempts ==
    LET ev == Direct.events IN
    /\ \A j \in 1..Len(ev) :
          (IsPost(ev[j]) /\ \E m \in (j + 1)..Len(ev) : IsPost(ev[m])) =>
              /\ j + 2 <= Len(ev)
              /\ ev[j + 1] = SleepEvent(2 ^ ev[j].n)
              /\ ev[j + 2] = PostEvent(ev[j].n + 1)
    /\ \A j \in 1..Len(ev) :
          ev[j] = PostEvent(Direct.retry_count - 1) => j = Len(ev)

\* C5: with retry_count >= 1, when every attempt ended in a transient failure
\* (5xx, timeout, transport error, 200 with absent or empty result, in any
\* mix), a finished call has made exactly retry_count requests and raised the
\* error recorded at the last attempt, not the generic error.
C5_ExhaustionSurfacesLastError ==
    (/\ Direct.retry_count >= 1
     /\ received # <<>>
     /\ \A j \in 1..Len(received) : TransientFailure(received[j])
     /\ Finished(Direct)) =>
        /\ Direct.pc = "raised"
        /\ Len(received) = Direct.retry_count
        /\ NumPosts(Direct) = Direct.retry_count
        /\ Direct.out = RecordedError(received[Len(received)])
        /\ Direct.out # AllRetriesFailedMsg

C5_Witness ==
    /\ Direct.retry_count >= 3
    /\ Len(received) = Direct.retry_count
    /\ Is5xx(received[1])
    /\ received[2].kind = "timeout"
    /\ Malformed200(received[3])
    /\ Direct.pc = "raised"

\* C6: an attempt i < retry_count - 1 that ended with a 5xx, another non-200
\* status outside [400,599), a timeout, a transport error or a 200 with absent
\* or empty result is followed by attempt i+1 (the call is in the backoff
\* sleep before it, or the request of attempt i+1 has been sent); and the
\* number of requests sent never exceeds retry_count.
C6_TransientRetriedUpToLimit ==
    /\ \A j \in 1..Len(received) :
          ((TransientFailure(received[j]) \/ IsOtherNon200(received[j]))
              /\ j - 1 < Direct.retry_count - 1) =>
                \/ Direct.pc = "sleep" /\ Direct.attempt = j - 1
                \/ \E m \in 1..Len(Direct.events) : Direct.events[m] = PostEvent(j)
    /\ NumPosts(Direct) <= (IF Direct.retry_count > 0 THEN Direct.retry_count ELSE 0)

C6_Witness ==
    /\ Len(received) = 2
    /\ received[1].kind = "timeout"
    /\ IsOtherNon200(received[2])
    /\ LastEvent(Direct) = PostEvent(2)

\* C7: a well-formed 200 (first candidate text non-empty after trimming) ends
\* the call at that attempt: it returned the text without its surrounding
\* whitespace, the returned text is not empty, and the request that got the
\* 200 is the last event.
C7_WellFormedReturnsTrimmed ==
    \A j \in 1..Len(received) :
        WellFormed200(received[j]) =>
            LET t == received[j].text
                out == Direct.out IN
            /\ Len(received) = j
            /\ Direct.pc = "returned"
            /\ out # <<>>
            /\ out[1] \notin Whitespace
            /\ out[Len(out)] \notin Whitespace
            /\ \E a \in 1..Len(t) :
                  /\ SubSeq(t, a, a + Len(out) - 1) = out
                  /\ \A i \in 1..Len(t) :
                        (i < a \/ i > a + Len(out) - 1) => t[i] \in Whitespace
            /\ LastEvent(Direct) = PostEvent(j - 1)

C7_Witness ==
    /\ Len(received) = 2
    /\ WellFormed200(received[2])
    /\ received[2].text # Direct.out
    /\ Direct.pc = "returned"

\* C8: without an API key the call raises the configuration error at once,
\* whatever retry_count is: no request is sent and no backoff sleep happens.
C8_NoKeyFailsBeforeAnyRequest ==
    (api_key = <<>> /\ Direct.pc # "idle") =>
        /\ Direct.pc = "raised"
        /\ Direct.out = KeyNotConfiguredMsg
        /\ Direct.events = <<>>
        /\ received = <<>>

C8_Witness ==
    /\ api_key = <<>>
    /\ Direct.retry_count >= 1
    /\ Direct.pc = "raised"

\* ------------------------------------------------- observations on a batch
InsideClassify(t) == calls[t].pc \in {"post", "sleep"}
Active == {t \in Tasks : InsideClassify(t)}

\* C9: while classify_batch runs with max_concurrent = k >= 1, at most k tasks
\* are inside classify_image (awaiting a response or in a backoff sleep), and
\* every task that is neither inside nor finished is still waiting for a slot
\* and has sent no request.
C9_AtMostKActive ==
    (batch_pc = "running" /\ max_concurrent >= 1) =>
        /\ Cardinality(Active) <= max_concurrent
        /\ \A t \in Tasks :
              (~InsideClassify(t) /\ task_result[t] = <<>>) =>
                  calls[t].pc = "idle" /\ calls[t].events = <<>>

C9_Witness ==
    /\ batch_pc = "running"
    /\ max_concurrent >= 1
    /\ Len(images_data) > max_concurrent
    /\ Cardinality(Active) = max_concurrent
    /\ \E t \in Tasks : calls[t].pc = "sleep"
    /\ \E t \in Tasks : calls[t].pc = "idle"

\* C10: when classify_batch has returned for N images, the result has exactly
\* N entries, every index 0..N-1 occurs exactly once, and the entry with index
\* i carries the outcome of the classify_image call made for the i-th image
\* (a success holds the trimmed label of that image, a failure the error that
\* call raised), whatever the order in which the tasks finished.
C10_OneResultPerIndex ==
    batch_pc = "returned" =>
        LET N == Len(images_data) IN
        /\ Len(batch_results) = N
        /\ \A i \in 0..(N - 1) :
              Cardinality({p \in 1..Len(batch_results) : batch_results[p].index = i}) = 1
        /\ \A p \in 1..Len(batch_results) :
              LET e == batch_results[p]
                  c == calls[e.index + 1] IN
              /\ c.image_data = images_data[e.index + 1]
              /\ IF e.success
                 THEN /\ c.pc = "returned"
                      /\ e.classification = c.out
                      /\ Contains(Label(images_data[e.index + 1]), e.classification)
                 ELSE /\ c.pc = "raised"
                      /\ e.error = c.out

C10_Witness ==
    /\ batch_pc = "returned"
    /\ Len(images_data) = 2
    /\ images_data[1] # images_data[2]
    /\ completed = <<2, 1>>
    /\ batch_results[1].success
    /\ ~batch_results[2].success

\* ------------------------------------------ claims on the simulated remote
Successes(results) == {p \in 1..Len(results) : results[p].success}
Failures(results) == {p \in 1..Len(results) : ~results[p].success}
FailingTasks == {t \in Tasks : images_data[t] \in FailingImages}

\* The outcome the simulated remote gives task t: a failure carrying the 500
\* error for a failing image, else a success carrying the trimmed label.
ExpectedOutcome(t, e) ==
    /\ e.index = t - 1
    /\ IF t \in FailingTasks
       THEN /\ ~e.success
            /\ e.error = ApiErrorPrefix \o <<"5", "0", "0">> \o ColonSpace
       ELSE /\ e.success
            /\ e.classification # <<>>
            /\ Contains(Label(images_data[t]), e.classification)

\* C11: a task whose classify_image call fails (here: 500 on every attempt,
\* retries exhausted) yields a failure for its own index only; the batch never
\* raises, a finished task never stops an unfinished sibling from running, every
\* sibling gets its own outcome, and the returned list holds one success per
\* good image and one failure per failing image at the right indices.
C11_FailureIsolatedPerIndex ==
    /\ batch_pc # "raised"
    /\ (batch_pc = "running" /\ \E t \in Tasks : task_result[t] = <<>>) =>
          ENABLED NextScripted
    /\ \A t \in DOMAIN task_result :
          task_result[t] # <<>> =>
              /\ ExpectedOutcome(t, task_result[t][1])
              /\ t \in FailingTasks => NumPosts(calls[t]) = DefaultRetryCount
    /\ batch_pc = "returned" =>
          /\ Len(batch_results) = Len(images_data)
          /\ \A t \in Tasks : ExpectedOutcome(t, batch_results[t])
          /\ Cardinality(Failures(batch_results)) = Cardinality(FailingTasks)
          /\ Cardinality(Successes(batch_results))
                = Len(images_data) - Cardinality(FailingTasks)

C11_Witness ==
    /\ batch_pc = "returned"
    /\ Len(images_data) = 3
    /\ FailingTasks = {2}
    /\ completed[1] # 2
    /\ Cardinality(Successes(batch_results)) = 2
    /\ Cardinality(Failures(batch_results)) = 1
    /\ batch_results[2].index = 1

\* C12 as stated: for every max_concurrent value passed, classify_batch never
\* raises and never blocks (while it runs, some task or gather can proceed).
C12_NeverRaisesNorBlocks ==
    /\ batch_pc # "raised"
    /\ batch_pc = "running" => ENABLED NextBatch

\* C12 as amended: for every input sequence and every max_concurrent >= 1,
\* when every request eventually returns or times out, classify_batch never
\* raises and eventually returns one result per image.
C12_ReturnsFullResultSet ==
    (max_concurrent >= 1) =>
        /\ [](batch_pc # "raised")
        /\ <>[](batch_pc = "returned" /\ Len(batch_results) = Len(images_data))

C12_Witness ==
    /\ batch_pc = "returned"
    /\ max_concurrent >= 1
    /\ Len(images_data) > max_concurrent
    /\ \E p \in 1..Len(batch_results) : ~batch_results[p].success
    /\ \E p \in 1..Len(batch_results) : batch_results[p].success

\* C13: test_connection returns True if and only if the probe GET completed
\* with HTTP status 200; every other status and every exception of the
\* network call yields False, and no exception reaches the caller.
C13_TestConnectionTrueOnlyOn200 ==
    /\ probe.pc # "raised"
    /\ probe.pc = "returned" =>
          (probe.result[1] <=>
              (probe.outcome[1].kind = "http" /\ probe.outcome[1].status = 200))

C13_Witness ==
    /\ probe.pc = "returned"
    /\ probe.outcome[1].kind = "reqerror"
    /\ probe.result = <<FALSE>>
    /\ http.reply[1].status = "degraded"

\* 0.0 <= t <= 1.0 on a float given in tenths; False for NaN.
InUnitInterval(t) ==
    /\ t.kind = "num"
    /\ MinTemperatureTenths <= t.tenths
    /\ t.tenths <= MaxTemperatureTenths

\* C14: whatever max_tokens and temperature the single-image endpoint
\* receives, the values it passes to classify_image satisfy
\* 10 <= max_tokens <= 500 and 0.0 <= temperature <= 1.0, and the request is
\* never rejected because of them.
C14_PassedParametersInRange ==
    (http.route = "classify" /\ http.passed # <<>>) =>
        /\ MinMaxTokens <= http.passed[1].max_tokens
        /\ http.passed[1].max_tokens <= MaxMaxTokens
        /\ InUnitInterval(http.passed[1].temperature)

\* max_tokens is always passed in 10..500, and every temperature other than
\* NaN is passed in 0.0..1.0.
ClampedUnlessNaN ==
    (http.route = "classify" /\ http.passed # <<>>) =>
        /\ MinMaxTokens <= http.passed[1].max_tokens
        /\ http.passed[1].max_tokens <= MaxMaxTokens
        /\ http.temperature # <<FNaN>> => InUnitInterval(http.passed[1].temperature)

\* C15: an upload of more than 10 files is rejected as a whole before any
\* file is read and before any classify_image call; an upload of at most 10
\* files is never rejected for its size.
C15_OversizeBatchRejectedFirst ==
    (http.route = "batch" /\ http.pc # "idle") =>
        IF http.n_files > MaxBatchFiles
        THEN /\ http.pc = "replied"
             /\ http.reply = <<BadRequestReply>>
             /\ http.files = <<>>
             /\ http.reads = 0
             /\ calls = <<>>
        ELSE http.pc = "replied" => http.reply[1].code = 200

C15_Witness ==
    /\ http.route = "batch"
    /\ http.n_files = MaxBatchFiles + 1
    /\ http.reply = <<BadRequestReply>>
    /\ http.reads = 0

\* A full-size upload passes the check and is processed.
C15_WitnessAccepted ==
    /\ http.route = "batch"
    /\ http.n_files = MaxBatchFiles
    /\ http.pc = "replied"
    /\ http.reads > 0

\* A failure that reaches `except Exception`: a 4xx raised as an API error, or
\* a 200 whose body does not parse or holds no result.
GenericPathFailure(r) ==
    \/ Is4xx(r)
    \/ r.kind = "http" /\ r.status = 200 /\ r.shape = "badjson"
    \/ Malformed200(r)
GenericErrorText(r) ==
    IF r.kind = "http" /\ r.status = 200 /\ r.shape = "badjson"
    THEN r.text
    ELSE RecordedError(r)
HasAuthDigits(msg) ==
    \E i \in 1..(Len(msg) - 2) :
        SubSeq(msg, i, i + 2) \in
            {<<"4", "0", "0">>, <<"4", "0", "1">>, <<"4", "0", "3">>}
\* Attempt j-1 was followed by attempt j, or the call is in the sleep before it.
Retried(c, j) ==
    \/ c.pc = "sleep" /\ c.attempt = j - 1 /\ LastEvent(c) = SleepEvent(2 ^ (j - 1))
    \/ \E m \in 1..Len(c.events) : c.events[m] = PostEvent(j)

C16_WitnessRetried ==
    /\ Direct.retry_count = 3
    /\ Len(received) = 2
    /\ received[1] = HttpResponse(429, <<>>)
    /\ received[2].shape = "badjson"
    /\ ~HasAuthDigits(received[2].text)
    /\ Direct.pc = "sleep"

\* C17: a failed call carries the generic "failed after all retries" error
\* exactly when no failure was recorded, which is exactly when retry_count <= 0
\* (with a key configured); then no request was sent and no backoff sleep
\* happened. A failed call that made at least one attempt carries the failure
\* recorded last.
C17_GenericErrorOnlyWithoutAttempts ==
    (api_key # <<>> /\ Direct.pc = "raised") =>
        /\ (Direct.out = AllRetriesFailedMsg) <=> (Direct.last_exception = <<>>)
        /\ (Direct.last_exception = <<>>) <=> (Direct.retry_count <= 0)
        /\ Direct.retry_count <= 0 => (Direct.events = <<>> /\ received = <<>>)
        /\ NumPosts(Direct) >= 1 =>
              /\ Direct.out = Direct.last_exception[1]
              /\ Direct.out =
                    (LET r == received[Len(received)] IN
                     IF r.kind = "http" /\ r.status = 200 /\ r.shape = "badjson"
                     THEN r.text ELSE RecordedError(r))

C17_Witness ==
    /\ api_key # <<>>
    /\ Direct.retry_count = 0
    /\ Direct.pc = "raised"
    /\ Direct.out = AllRetriesFailedMsg
    /\ Direct.events = <<>>

C17_WitnessNegative ==
    /\ api_key # <<>>
    /\ Direct.retry_count < 0
    /\ Direct.pc = "raised"
    /\ Direct.out = AllRetriesFailedMsg

\* Every slot taken from the semaphore is held by a task inside classify_image.
SlotAccounting ==
    batch_pc \in {"running", "returned"} =>
        semaphore = max_concurrent - Cardinality(Active)
NoTaskWaiting ==
    /\ batch_pc \in {"running", "returned"}
    /\ \A t \in Tasks : calls[t].pc # "idle"

\* C18: with max_concurrent >= 1, a task's slot is released when its
\* classify_image call ends, by failure as by success: the free slots are
\* always max_concurrent minus the tasks inside a call, every task waiting
\* for a slot is eventually admitted (each request eventually returns or
\* times out), and all max_concurrent slots are free when the batch returns.
C18_SlotsReleasedOnEveryOutcome ==
    (max_concurrent >= 1) =>
        /\ []SlotAccounting
        /\ <>[]NoTaskWaiting
        /\ [](batch_pc = "returned" => semaphore = max_concurrent)

C18_Witness ==
    /\ batch_pc = "running"
    /\ max_concurrent = 1
    /\ completed # <<>>
    /\ ~task_result[completed[1]][1].success
    /\ \E t \in Tasks : InsideClassify(t)

RECURSIVE PostsUpTo(_)
PostsUpTo(t) == IF t = 0 THEN 0 ELSE NumPosts(calls[t]) + PostsUpTo(t - 1)
\* Requests sent so far by all the tasks of the batch.
TotalPosts == PostsUpTo(Len(calls))

\* C19: classify_batch makes one classify_image call per index, with the
\* default retry_count of 3, and never runs an item again: the requests of
\* task t are those of attempts 0, 1, ... of one call, at most 3 of them, a
\* task finishes at most once, and the batch sends at most 3 * N requests.
C19_OneCallPerIndex ==
    batch_pc \in {"running", "returned"} =>
        /\ \A t \in Tasks :
              /\ calls[t].retry_count = DefaultRetryCount
              /\ Posts(calls[t]) = [j \in 1..NumPosts(calls[t]) |-> PostEvent(j - 1)]
              /\ NumPosts(calls[t]) <= DefaultRetryCount
              /\ Cardinality({p \in 1..Len(completed) : completed[p] = t})
                    = (IF Finished(calls[t]) THEN 1 ELSE 0)
        /\ TotalPosts <= DefaultRetryCount * Len(images_data)

C19_Witness ==
    /\ batch_pc = "returned"
    /\ Len(images_data) = 2
    /\ \A t \in Tasks : NumPosts(calls[t]) = DefaultRetryCount /\ calls[t].pc = "raised"
    /\ TotalPosts = DefaultRetryCount * Len(images_data)

\* C20: an upload of at most 10 files is answered with one entry per file in
\* upload order and successful + failed = total_files; a file that is not an
\* image gets a failure entry without being read or classified, a file whose
\* classification fails gets a failure entry carrying that error, and the
\* files after it are processed all the same.
C20_BatchReplyComplete ==
    (http.route = "batch" /\ http.n_files <= MaxBatchFiles) =>
        LET res == http.results
            images == {j \in 1..Len(http.files) : http.files[j].is_image} IN
        /\ Len(res) <= Len(http.files)
        /\ Len(http.files) <= Len(res) + 1
        /\ http.reads = Cardinality(images)
        /\ \A p \in 1..Len(res) :
              /\ res[p].filename = p
              /\ http.files[p].filename = p
              /\ ~http.files[p].is_image =>
                    (~res[p].success /\ res[p].error = NotAnImageMsg)
              /\ http.files[p].is_image =>
                    IF res[p].success
                    THEN Contains(Label(http.files[p].data), res[p].classification)
                    ELSE res[p].error \in {KeyNotConfiguredMsg, TimeoutMsg}
        /\ http.pc = "replied" =>
              LET reply == http.reply[1] IN
              /\ reply.code = 200
              /\ reply.batch_results = res
              /\ Len(res) = http.n_files
              /\ reply.total_files = http.n_files
              /\ reply.successful + reply.failed = reply.total_files
              /\ reply.successful = Cardinality({p \in 1..Len(res) : res[p].success})

C20_Witness ==
    /\ http.route = "batch"
    /\ http.pc = "replied"
    /\ http.n_files = 3
    /\ ~http.files[1].is_image
    /\ http.files[2].is_image /\ ~http.results[2].success
    /\ http.results[3].success
    /\ http.reply[1].successful = 1
    /\ http.reply[1].failed = 2

\* C21: a max_tokens in 10..500 and a temperature in 0.0..1.0 (bounds
\* included) supplied to the single-image endpoint are passed to
\* classify_image unchanged.
C21_InRangeOverridesUnchanged ==
    (http.route = "classify" /\ http.passed # <<>>) =>
        /\ (/\ http.max_tokens # <<>>
            /\ MinMaxTokens <= http.max_tokens[1]
            /\ http.max_tokens[1] <= MaxMaxTokens) =>
               http.passed[1].max_tokens = http.max_tokens[1]
        /\ (http.temperature # <<>> /\ InUnitInterval(http.temperature[1])) =>
               http.passed[1].temperature = http.temperature[1]

\* Every in-range max_tokens, and every in-range temperature other than 0.0,
\* is passed unchanged.
UnchangedUnlessZero ==
    (http.route = "classify" /\ http.passed # <<>>) =>
        /\ (/\ http.max_tokens # <<>>
            /\ MinMaxTokens <= http.max_tokens[1]
            /\ http.max_tokens[1] <= MaxMaxTokens) =>
               http.passed[1].max_tokens = http.max_tokens[1]
        /\ (/\ http.temperature # <<>>
            /\ InUnitInterval(http.temperature[1])
            /\ http.temperature[1] # FNum(0)) =>
               http.passed[1].temperature = http.temperature[1]

\* C22: the list classify_batch returns is in input order: the element at
\* position i (from 0) has index i, whatever the order in which the tasks
\* finished.
C22_ResultsInInputOrder ==
    batch_pc = "returned" =>
        /\ Len(batch_results) = Len(images_data)
        /\ \A i \in 0..(Len(images_data) - 1) : batch_results[i + 1].index = i

C22_Witness ==
    /\ batch_pc = "returned"
    /\ Len(images_data) = MaxImages
    /\ completed[1] = MaxImages
    /\ batch_results[1].index = 0
    /\ max_concurrent >= 2
    /\ \A t \in Tasks : NumPosts(calls[t]) >= 1

\* C23: the batch endpoint handles the files one after another and never
\* enters classify_batch: the only classify_image call that can be in flight
\* is that of the file reached last, the outcomes of all the files before it
\* are recorded by then, and outside a call every file reached has its
\* outcome recorded.
C23_BatchEndpointSequential ==
    http.route = "batch" =>
        /\ batch_pc = "none"
        /\ semaphore = 0
        /\ Len(calls) <= 1
        /\ IF http.pc = "classifying"
           THEN /\ calls[1].pc \in {"post", "sleep"}
                /\ Len(http.files) = Len(http.results) + 1
                /\ http.files[Len(http.files)].is_image
                /\ calls[1].image_data = http.files[Len(http.files)].data
           ELSE /\ Len(http.files) = Len(http.results)
                /\ calls # <<>> => Finished(calls[1])

C23_Witness ==
    /\ http.route = "batch"
    /\ http.pc = "classifying"
    /\ Len(http.files) = 3
    /\ http.files[1].is_image /\ http.files[2].is_image
    /\ http.results[1].success
    /\ ~http.results[2].success
    /\ calls[1].events = <<PostEvent(0)>>

=============================================================================
